---- MODULE Spec2Model ----
(***************************************************************************)
(* Model of typecats/cats_mypy_plugin.py: the class-decorator hook of the  *)
(* Cats mypy plugin, its static-method injector and the cache helper        *)
(* deserialize_funcdefs.                                                    *)
(*                                                                          *)
(* Qualified names ("typecats.tc.Cat") are sequences of their dotted        *)
(* components, so that "a.b" + "." + n is Append and exact equality differs *)
(* from suffix or prefix matching.                                          *)
(***************************************************************************)
EXTENDS Integers, Sequences, FiniteSets

VARIABLES
    cls,        \* ctx.cls: fullname, line, type_vars, names (info.names), body (info.defn.defs.body)
    decorator,  \* fully-qualified name of the decorator written on the class
    hook,       \* what get_class_decorator_hook returned to the host
    pc,         \* host position: "idle" | "dispatched"
    passes,     \* number of analysis passes the host has completed on the class
    raised,     \* whether the last plugin call ended in AssertionError
    lastArgs,   \* argument list of the last direct add_static_method call
    stmts,      \* serialized incremental-state records given to deserialize_funcdefs
    funcdefs,   \* result of deserialize_funcdefs
    done        \* deserialize_funcdefs has returned

vars == <<cls, decorator, hook, pc, passes, raised, lastArgs, stmts, funcdefs, done>>

(* ---------------------------- bounds ----------------------------------- *)
MaxPasses == 3
MaxArgs == 2
MaxStmts == 3

(* ------------------------ module constants ----------------------------- *)
CAT_PATH == <<"typecats", "tc", "Cat">>
STRUCTURE_NAME == "struc"
TRY_STRUCTURE_NAME == "try_struc"
UNSTRUCTURE_NAME == "unstruc"

Synthetic == {STRUCTURE_NAME, TRY_STRUCTURE_NAME, UNSTRUCTURE_NAME}

(* --------------------------- mypy types -------------------------------- *)
Instance(name, args) == [kind |-> "Instance", name |-> name, args |-> args]
AnyType == [kind |-> "AnyType", name |-> <<>>, args |-> <<>>]
TypeVarType(n) == [kind |-> "TypeVarType", name |-> <<n>>, args |-> <<>>]
NoneTyp == [kind |-> "NoneTyp", name |-> <<>>, args |-> <<>>]
\* Python None in the place of a type annotation
NoAnnotation == [kind |-> "None", name |-> <<>>, args |-> <<>>]

DictName == <<"__builtins__", "dict">>
StrName == <<"__builtins__", "str">>
FunctionName == <<"__builtins__", "function">>
IntName == <<"__builtins__", "int">>

\* number of type variables the named builtin class declares
BuiltinTypeVars(qualified_name) == IF qualified_name = DictName THEN 2 ELSE 0

\* api.named_type(qualified_name, args=None): without args every type
\* variable of the named class is filled with Any
named_type(qualified_name, args) ==
    IF args # <<>>
    THEN Instance(qualified_name, args)
    ELSE Instance(qualified_name, [i \in 1..BuiltinTypeVars(qualified_name) |-> AnyType])

\* fill_typevars(info): the class applied to its own type variables, in order
fill_typevars(info) ==
    Instance(info.fullname, [i \in 1..Len(info.type_vars) |-> TypeVarType(info.type_vars[i])])

(* --------------------------- mypy nodes -------------------------------- *)
Var(name, type) == [name |-> name, type |-> type]
Argument(variable, type_annotation, initializer, kind) ==
    [variable |-> variable, type_annotation |-> type_annotation,
     initializer |-> initializer, kind |-> kind]
CallableType(arg_types, arg_kinds, arg_names, ret_type, fallback) ==
    [arg_types |-> arg_types, arg_kinds |-> arg_kinds, arg_names |-> arg_names,
     ret_type |-> ret_type, fallback |-> fallback, name |-> <<>>]
NoCallable == CallableType(<<>>, <<>>, <<>>, NoAnnotation, NoAnnotation)
FuncDef(name, arguments, body) ==
    [name |-> name, arguments |-> arguments, body |-> body, is_static |-> FALSE,
     info |-> <<>>, type |-> NoCallable, fullname |-> <<name>>, line |-> -1]
SymbolTableNode(kind, node, plugin_generated) ==
    [kind |-> kind, node |-> node, plugin_generated |-> plugin_generated]

Last(s) == s[Len(s)]

\* set_callable_name(sig, fdef): "<name> of <class>" when the function has an info
set_callable_name(sig, fdef) ==
    IF fdef.info # <<>>
    THEN [sig EXCEPT !.name = <<fdef.name, "of", Last(fdef.info)>>]
    ELSE [sig EXCEPT !.name = <<fdef.name>>]

\* info.names[name] = node
SetItem(names, name, node) ==
    [n \in (DOMAIN names) \cup {name} |-> IF n = name THEN node ELSE names[n]]

(* ----------------------- add_static_method ----------------------------- *)
\* the loop's assert: every argument carries a type annotation
AllTyped(args) == \A i \in 1..Len(args) : args[i].type_annotation # NoAnnotation

\* mutant: the function definition is not marked static and takes a receiver
StaticFuncDef_AsMethod(info, name, args, return_type) ==
    LET function_type == named_type(FunctionName, <<>>)
        selfarg == Argument(Var("self", fill_typevars(info)), fill_typevars(info), "None", "ARG_POS")
        all == <<selfarg>> \o args
        arg_types == [i \in 1..Len(all) |-> all[i].type_annotation]
        arg_names == [i \in 1..Len(all) |-> all[i].variable.name]
        arg_kinds == [i \in 1..Len(all) |-> all[i].kind]
        signature == CallableType(arg_types, arg_kinds, arg_names, return_type, function_type)
        func0 == FuncDef(name, all, <<"PassStmt">>)
        func1 == [func0 EXCEPT !.info = info.fullname]
    IN  [func1 EXCEPT !.type = set_callable_name(signature, func1),
                      !.fullname = Append(info.fullname, name),
                      !.line = info.line]

\* the function definition add_static_method builds (lines 98-114)
StaticFuncDef(info, name, args, return_type) ==
    LET function_type == named_type(FunctionName, <<>>)
        arg_types == [i \in 1..Len(args) |-> args[i].type_annotation]
        arg_names == [i \in 1..Len(args) |-> args[i].variable.name]
        arg_kinds == [i \in 1..Len(args) |-> args[i].kind]
        signature == CallableType(arg_types, arg_kinds, arg_names, return_type, function_type)
        func0 == FuncDef(name, args, <<"PassStmt">>)
        func1 == [func0 EXCEPT !.is_static = TRUE, !.info = info.fullname]
    IN  [func1 EXCEPT !.type = set_callable_name(signature, func1),
                      !.fullname = Append(info.fullname, name),
                      !.line = info.line]

\* mutant: the table entry is written but the body statement is not appended
add_static_method_NoBody(ctx, name, args, return_type) ==
    IF ~AllTyped(args)
    THEN [raised |-> TRUE, ctx |-> ctx]
    ELSE LET func == StaticFuncDef(ctx, name, args, return_type)
         IN  [raised |-> FALSE,
              ctx |-> [ctx EXCEPT !.names = SetItem(@, name, SymbolTableNode("MDEF", func, TRUE))]]

\* mutant: the assert is missing, an unannotated argument is stored
add_static_method_NoAssert(ctx, name, args, return_type) ==
    LET func == StaticFuncDef(ctx, name, args, return_type)
    IN  [raised |-> FALSE,
         ctx |-> [ctx EXCEPT !.names = SetItem(@, name, SymbolTableNode("MDEF", func, TRUE)),
                             !.body = Append(@, func)]]

\* add_static_method(ctx, name, args, return_type): raises AssertionError in
\* the argument loop, before info is touched; otherwise writes the table
\* entry and appends the statement
add_static_method(ctx, name, args, return_type) ==
    IF ~AllTyped(args)
    THEN [raised |-> TRUE, ctx |-> ctx]
    ELSE LET func == StaticFuncDef(ctx, name, args, return_type)
         IN  [raised |-> FALSE,
              ctx |-> [ctx EXCEPT !.names = SetItem(@, name, SymbolTableNode("MDEF", func, TRUE)),
                                  !.body = Append(@, func)]]

(* ------------------ mypy.plugins.common.add_method --------------------- *)
\* add_method(ctx, name, args, return_type): like add_static_method, with a
\* leading self argument of the class's own type and no static flag
add_method(ctx, name, args, return_type) ==
    LET self_type == fill_typevars(ctx)
        function_type == named_type(FunctionName, <<>>)
        all == <<Argument(Var("self", NoAnnotation), self_type, "None", "ARG_POS")>> \o args
        arg_types == [i \in 1..Len(all) |-> all[i].type_annotation]
        arg_names == [i \in 1..Len(all) |-> all[i].variable.name]
        arg_kinds == [i \in 1..Len(all) |-> all[i].kind]
        signature == CallableType(arg_types, arg_kinds, arg_names, return_type, function_type)
        func0 == FuncDef(name, all, <<"PassStmt">>)
        func1 == [func0 EXCEPT !.info = ctx.fullname]
        func == [func1 EXCEPT !.type = set_callable_name(signature, func1),
                              !.fullname = Append(ctx.fullname, name),
                              !.line = ctx.line]
    IN  IF ~AllTyped(args)
        THEN [raised |-> TRUE, ctx |-> ctx]
        ELSE [raised |-> FALSE,
              ctx |-> [ctx EXCEPT !.names = SetItem(@, name, SymbolTableNode("MDEF", func, TRUE)),
                                  !.body = Append(@, func)]]

\* attr_class_maker_callback(ctx, auto_attribs_default): the attrs delegate;
\* of its effects the model keeps the generated __init__
attr_class_maker_callback(ctx, auto_attribs_default) ==
    add_method(ctx, "__init__", <<>>, NoneTyp).ctx

(* ------------------- get_class_decorator_hook -------------------------- *)
\* mutant: the presence check is dropped
NotPresent_Always(info, name) == TRUE

\* mutant: the presence check is inverted
NotPresent_Inverted(info, name) == name \in DOMAIN info.names

\* "NAME not in info.names" (lines 57, 64, 72)
NotPresent(info, name) == name \notin DOMAIN info.names

\* [Argument(Var("d", dict_type), dict_type, None, ARG_POS)] (lines 61, 69)
StrucArgs(dict_type) == <<Argument(Var("d", dict_type), dict_type, "None", "ARG_POS")>>

\* mutant: the class without its type variables
StrucReturnType_Erased(info) == Instance(info.fullname, <<>>)

\* the return type handed to add_static_method (lines 62, 70)
StrucReturnType(info) == fill_typevars(info)

\* mutant: unstruc injected as a static method
AddUnstruc_Static(ctx, dict_type) == add_static_method(ctx, UNSTRUCTURE_NAME, <<>>, dict_type)

\* add_method(cls_def_ctx, UNSTRUCTURE_NAME, [], dict_type) (line 73)
AddUnstruc(ctx, dict_type) == add_method(ctx, UNSTRUCTURE_NAME, <<>>, dict_type)

\* the closure returned by the hook, applied to a class definition context
add_struc_and_unstruc_to_classdefcontext(fullname, cls_def_ctx) ==
    LET dict_type == named_type(DictName, <<>>)
        str_type == named_type(StrName, <<>>)
        c0 == attr_class_maker_callback(cls_def_ctx, TRUE)
        r1 == IF NotPresent(c0, STRUCTURE_NAME)
              THEN add_static_method(c0, STRUCTURE_NAME, StrucArgs(dict_type), StrucReturnType(c0))
              ELSE [raised |-> FALSE, ctx |-> c0]
        r2 == IF r1.raised THEN r1
              ELSE IF NotPresent(r1.ctx, TRY_STRUCTURE_NAME)
              THEN add_static_method(r1.ctx, TRY_STRUCTURE_NAME, StrucArgs(dict_type),
                                     StrucReturnType(r1.ctx))
              ELSE r1
        r3 == IF r2.raised THEN r2
              ELSE IF NotPresent(r2.ctx, UNSTRUCTURE_NAME)
              THEN AddUnstruc(r2.ctx, dict_type)
              ELSE r2
    IN  IF fullname = CAT_PATH THEN r3 ELSE [raised |-> FALSE, ctx |-> cls_def_ctx]

NoHook == [kind |-> "None", fullname |-> <<>>]
Callback(fullname) == [kind |-> "callback", fullname |-> fullname]

\* mutant: any decorator whose last component is Cat matches
Matches_Suffix(fullname) == fullname # <<>> /\ Last(fullname) = Last(CAT_PATH)

\* "fullname == CAT_PATH" (line 75)
Matches(fullname) == fullname = CAT_PATH

get_class_decorator_hook(fullname) ==
    IF Matches(fullname) THEN Callback(fullname) ELSE NoHook

(* ----------------------- deserialize_funcdefs -------------------------- *)
\* FuncDef.deserialize(data): asserts the tag, rebuilds a function
\* definition with an empty body and no arguments
FuncDef_deserialize(data) ==
    IF data.class = "FuncDef"
    THEN [raised |-> FALSE, value |-> FuncDef(data.name, <<>>, <<>>)]
    ELSE [raised |-> TRUE, value |-> FuncDef("", <<>>, <<>>)]

\* mutant: every record is decoded
deserialize_funcdefs_NoFilter(ss) ==
    LET dec == [i \in 1..Len(ss) |-> FuncDef_deserialize(ss[i])]
    IN  IF \E i \in 1..Len(dec) : dec[i].raised
        THEN [raised |-> TRUE, value |-> <<>>]
        ELSE [raised |-> FALSE, value |-> [i \in 1..Len(dec) |-> dec[i].value]]

IsFuncDefRecord(stmt) == stmt.class = "FuncDef"

\* [FuncDef.deserialize(stmt) for stmt in stmts if stmt[".class"] == "FuncDef"]
deserialize_funcdefs(ss) ==
    LET kept == SelectSeq(ss, IsFuncDefRecord)
        dec == [i \in 1..Len(kept) |-> FuncDef_deserialize(kept[i])]
    IN  IF \E i \in 1..Len(dec) : dec[i].raised
        THEN [raised |-> TRUE, value |-> <<>>]
        ELSE [raised |-> FALSE, value |-> [i \in 1..Len(dec) |-> dec[i].value]]

(* ------------------------- initial states ------------------------------ *)
ClassName == <<"app", "Kitten">>

\* decorator names the host may ask the plugin about
FullNames == {CAT_PATH, <<"typecats", "tc", "cat">>, <<"typecats", "Cat">>,
              <<"other", "tc", "Cat">>, <<"typecats", "tc", "Cat", "x">>, <<"attr", "s">>}

TypeVarLists == {<<>>, <<"T">>, <<"T", "U">>}

\* a member the user wrote in the class: def name(self) -> int
UserFuncDef(info, name) ==
    LET selfarg == Argument(Var("self", NoAnnotation), NoAnnotation, "None", "ARG_POS")
        sig == CallableType(<<fill_typevars(info)>>, <<"ARG_POS">>, <<"self">>,
                            named_type(IntName, <<>>), named_type(FunctionName, <<>>))
        func0 == FuncDef(name, <<selfarg>>, <<"ReturnStmt">>)
        func1 == [func0 EXCEPT !.info = info.fullname]
    IN  [func1 EXCEPT !.type = set_callable_name(sig, func1),
                      !.fullname = Append(info.fullname, name),
                      !.line = info.line + 1]

InDeclared(declared, n) == n \in declared

\* the class as the analyzer holds it before any plugin ran: the members the
\* user declared are in the member table and in the body
ClassDef(type_vars, declared) ==
    LET bare == [fullname |-> ClassName, line |-> 1, type_vars |-> type_vars]
        order == SelectSeq(<<STRUCTURE_NAME, TRY_STRUCTURE_NAME, UNSTRUCTURE_NAME>>,
                           LAMBDA n : InDeclared(declared, n))
    IN  [fullname |-> ClassName, line |-> 1, type_vars |-> type_vars,
         names |-> [n \in declared |-> SymbolTableNode("MDEF", UserFuncDef(bare, n), FALSE)],
         body |-> [i \in 1..Len(order) |-> UserFuncDef(bare, order[i])]]

InitPlugin ==
    /\ hook = NoHook
    /\ pc = "idle"
    /\ passes = 0
    /\ raised = FALSE
    /\ lastArgs = <<>>
    /\ stmts = <<>>
    /\ funcdefs = <<>>
    /\ done = FALSE

Init ==
    /\ \E tv \in TypeVarLists, declared \in SUBSET Synthetic : cls = ClassDef(tv, declared)
    /\ decorator \in FullNames
    /\ InitPlugin

(* ---------------------- host drives the hook --------------------------- *)
\* the host asks the plugin about the class's decorator
GetHook ==
    /\ pc = "idle"
    /\ passes < MaxPasses
    /\ hook' = get_class_decorator_hook(decorator)
    /\ pc' = "dispatched"
    /\ UNCHANGED <<cls, decorator, passes, raised, lastArgs, stmts, funcdefs, done>>

\* the host invokes the returned callback on the class definition context
RunHook ==
    /\ pc = "dispatched"
    /\ hook.kind = "callback"
    /\ LET r == add_struc_and_unstruc_to_classdefcontext(hook.fullname, cls)
       IN  /\ cls' = r.ctx
           /\ raised' = r.raised
    /\ pc' = "idle"
    /\ passes' = passes + 1
    /\ UNCHANGED <<decorator, hook, lastArgs, stmts, funcdefs, done>>

\* no callback was returned: the host goes on without the plugin
SkipHook ==
    /\ pc = "dispatched"
    /\ hook.kind = "None"
    /\ pc' = "idle"
    /\ passes' = passes + 1
    /\ UNCHANGED <<cls, decorator, hook, raised, lastArgs, stmts, funcdefs, done>>

Next == GetHook \/ RunHook \/ SkipHook

Spec == Init /\ [][Next]_vars

(* ------------- add_static_method called on its own --------------------- *)
ArgChoices ==
    {Argument(Var("d", named_type(DictName, <<>>)), named_type(DictName, <<>>), "None", "ARG_POS"),
     Argument(Var("u", NoAnnotation), NoAnnotation, "None", "ARG_POS")}

RECURSIVE SeqsUpTo(_, _)
SeqsUpTo(S, n) ==
    IF n = 0 THEN {<<>>}
    ELSE LET shorter == SeqsUpTo(S, n - 1)
         IN  shorter \cup {Append(q, x) : q \in shorter, x \in S}

MemberNames == {STRUCTURE_NAME, "other"}

InitInjector ==
    /\ \E declared \in SUBSET Synthetic : cls = ClassDef(<<"T">>, declared)
    /\ decorator = CAT_PATH
    /\ InitPlugin

CallAddStaticMethod ==
    /\ passes < MaxPasses
    /\ \E name \in MemberNames, args \in SeqsUpTo(ArgChoices, MaxArgs) :
          LET r == add_static_method(cls, name, args, fill_typevars(cls))
          IN  /\ cls' = r.ctx
              /\ raised' = r.raised
              /\ lastArgs' = args
    /\ passes' = passes + 1
    /\ UNCHANGED <<decorator, hook, pc, stmts, funcdefs, done>>

NextInjector == CallAddStaticMethod

SpecInjector == InitInjector /\ [][NextInjector]_vars

(* ------------------ deserialize_funcdefs on a stream ------------------- *)
RecordTags == {"FuncDef", "Decorator", "Var"}
RecordNames == {STRUCTURE_NAME, TRY_STRUCTURE_NAME, UNSTRUCTURE_NAME}
Records == [class : RecordTags, name : RecordNames]

InitCache ==
    /\ cls = ClassDef(<<>>, {})
    /\ decorator = CAT_PATH
    /\ hook = NoHook
    /\ pc = "idle"
    /\ passes = 0
    /\ raised = FALSE
    /\ lastArgs = <<>>
    /\ stmts \in SeqsUpTo(Records, MaxStmts)
    /\ funcdefs = <<>>
    /\ done = FALSE

Deserialize ==
    /\ ~done
    /\ LET r == deserialize_funcdefs(stmts)
       IN  /\ funcdefs' = r.value
           /\ raised' = r.raised
    /\ done' = TRUE
    /\ UNCHANGED <<cls, decorator, hook, pc, passes, lastArgs, stmts>>

NextCache == Deserialize

SpecCache == InitCache /\ [][NextCache]_vars

(* ============================ properties =============================== *)
\* number of statements of the definition body that define name n
Count(body, n) == Cardinality({i \in 1..Len(body) : body[i].name = n})

\* the class carries the target marker and the callback has run on it
Processed == decorator = CAT_PATH /\ passes >= 1

PluginMade(c, n) == n \in DOMAIN c.names /\ c.names[n].plugin_generated

\* what a class shows of the three synthetic members
SynthView(c) ==
    [table |-> [n \in Synthetic \cap DOMAIN c.names |-> c.names[n]],
     stmts |-> SelectSeq(c.body, LAMBDA f : f.name \in Synthetic)]

OnePerName(c) == \A n \in Synthetic : n \in DOMAIN c.names /\ Count(c.body, n) = 1

\* C1: once the callback has run on a class under the target marker, every
\* further invocation leaves the three synthetic members as the first one
\* left them: one table entry and one body statement per name, and the
\* entries and statements themselves unchanged.
C1_Idempotent ==
    [][Processed => /\ OnePerName(cls)
                    /\ OnePerName(cls')
                    /\ SynthView(cls') = SynthView(cls)]_vars

C1_Witness ==
    /\ decorator = CAT_PATH
    /\ passes >= 2
    /\ pc = "idle"
    /\ \A n \in Synthetic : PluginMade(cls, n)

\* C2: after the callback, struc and try_struc are in the member table, and
\* where the plugin made them they are static, take exactly one argument, of
\* plain-positional kind and not a receiver, and return the class's own
\* type; a call without arguments does not fit.
C2_StaticShape ==
    Processed =>
        \A n \in {STRUCTURE_NAME, TRY_STRUCTURE_NAME} :
            /\ n \in DOMAIN cls.names
            /\ PluginMade(cls, n) =>
                  LET f == cls.names[n].node
                  IN  /\ f.is_static
                      /\ Len(f.arguments) = 1
                      /\ Len(f.type.arg_types) = 1
                      /\ f.type.arg_kinds = <<"ARG_POS">>
                      /\ f.type.arg_names # <<"self">>
                      /\ f.type.ret_type.kind = "Instance"
                      /\ f.type.ret_type.name = cls.fullname
                      /\ Cardinality({i \in 1..Len(f.type.arg_kinds) :
                                         f.type.arg_kinds[i] = "ARG_POS"}) > 0

C2_Witness ==
    /\ Processed
    /\ PluginMade(cls, STRUCTURE_NAME)
    /\ PluginMade(cls, TRY_STRUCTURE_NAME)
    /\ cls.type_vars = <<>>

\* C3: after the callback, unstruc is in the member table, and where the
\* plugin made it, it is an instance method whose only argument is the
\* receiver and whose return type is the mapping type.
C3_UnstrucShape ==
    Processed =>
        /\ UNSTRUCTURE_NAME \in DOMAIN cls.names
        /\ PluginMade(cls, UNSTRUCTURE_NAME) =>
              LET f == cls.names[UNSTRUCTURE_NAME].node
              IN  /\ ~f.is_static
                  /\ f.type.arg_names = <<"self">>
                  /\ Len(f.arguments) = 1
                  /\ f.type.ret_type.kind = "Instance"
                  /\ f.type.ret_type.name = DictName

C3_Witness ==
    /\ Processed
    /\ PluginMade(cls, UNSTRUCTURE_NAME)
    /\ STRUCTURE_NAME \in DOMAIN cls.names
    /\ ~cls.names[STRUCTURE_NAME].plugin_generated

\* C4: the hook returns a callback exactly for the name typecats.tc.Cat, the
\* dispatch call changes no class, and a class under any other name is never
\* changed.
C4_Dispatch ==
    /\ [](pc = "dispatched" => (hook.kind = "callback" <=> decorator = CAT_PATH))
    /\ [][pc = "idle" => cls' = cls]_vars
    /\ [][decorator # CAT_PATH => cls' = cls]_vars

C4_Witness ==
    /\ pc = "dispatched"
    /\ hook = NoHook
    /\ Last(decorator) = "Cat"
    /\ decorator # CAT_PATH
    /\ passes >= 1

\* C5: a name that is in the member table when the callback runs keeps its
\* entry and gets no further body statement; a name that is absent then is
\* injected by the same run.
C5_Preserved ==
    [][\A n \in Synthetic :
          /\ n \in DOMAIN cls.names =>
                /\ n \in DOMAIN cls'.names
                /\ cls'.names[n] = cls.names[n]
                /\ Count(cls'.body, n) = Count(cls.body, n)
          /\ (n \notin DOMAIN cls.names /\ pc = "dispatched" /\ hook.kind = "callback") =>
                /\ PluginMade(cls', n)
                /\ Count(cls'.body, n) = Count(cls.body, n) + 1]_vars

C5_Witness ==
    /\ Processed
    /\ UNSTRUCTURE_NAME \in DOMAIN cls.names
    /\ ~cls.names[UNSTRUCTURE_NAME].plugin_generated
    /\ PluginMade(cls, STRUCTURE_NAME)
    /\ PluginMade(cls, TRY_STRUCTURE_NAME)

\* C6: for a class with type parameters, the injected struc and try_struc
\* return the class applied to one type variable per declared parameter, in
\* declaration order.
C6_GenericReturn ==
    (Processed /\ cls.type_vars # <<>>) =>
        \A n \in {STRUCTURE_NAME, TRY_STRUCTURE_NAME} :
            PluginMade(cls, n) =>
                LET ret == cls.names[n].node.type.ret_type
                IN  /\ ret.kind = "Instance"
                    /\ ret.name = cls.fullname
                    /\ Len(ret.args) = Len(cls.type_vars)
                    /\ \A i \in 1..Len(cls.type_vars) :
                          /\ ret.args[i].kind = "TypeVarType"
                          /\ ret.args[i].name = <<cls.type_vars[i]>>

C6_Witness ==
    /\ Processed
    /\ Len(cls.type_vars) = 2
    /\ PluginMade(cls, STRUCTURE_NAME)
    /\ PluginMade(cls, TRY_STRUCTURE_NAME)

MappingStrAny == Instance(DictName, <<Instance(StrName, <<>>), AnyType>>)

\* C7: the argument type of the injected struc and try_struc and the return
\* type of the injected unstruc is the mapping type with key string and
\* value arbitrary.
C7_MappingStrAny ==
    /\ \A n \in {STRUCTURE_NAME, TRY_STRUCTURE_NAME} :
          PluginMade(cls, n) => cls.names[n].node.type.arg_types = <<MappingStrAny>>
    /\ PluginMade(cls, UNSTRUCTURE_NAME) =>
          cls.names[UNSTRUCTURE_NAME].node.type.ret_type = MappingStrAny

\* positions of the records tagged as function definitions
Tagged(ss) == {i \in 1..Len(ss) : ss[i].class = "FuncDef"}

\* C8: deserialize_funcdefs returns, without error, one function definition
\* per record tagged FuncDef, in the order of the input; other records
\* contribute nothing.
C8_FilterInOrder ==
    done =>
        /\ ~raised
        /\ Len(funcdefs) = Cardinality(Tagged(stmts))
        /\ \A j \in 1..Len(funcdefs) :
              \E i \in Tagged(stmts) :
                  /\ Cardinality({k \in Tagged(stmts) : k <= i}) = j
                  /\ funcdefs[j].name = stmts[i].name
                  /\ funcdefs[j].arguments = <<>>

C8_Witness ==
    /\ done
    /\ Len(stmts) = 3
    /\ stmts[2].class # "FuncDef"
    /\ Len(funcdefs) = 2
    /\ funcdefs[1].name = UNSTRUCTURE_NAME
    /\ funcdefs[2].name = STRUCTURE_NAME

\* C9: every table entry the plugin made for a synthetic name is flagged
\* plugin-generated and has exactly one statement in the body, which is the
\* entry's own function definition; every body statement for a synthetic
\* name is the function definition of its table entry.
C9_TableBody ==
    /\ \A n \in Synthetic \cap DOMAIN cls.names :
          /\ cls.names[n].node.body = <<"PassStmt">> => cls.names[n].plugin_generated
          /\ cls.names[n].plugin_generated =>
                /\ Count(cls.body, n) = 1
                /\ \E i \in 1..Len(cls.body) : cls.body[i] = cls.names[n].node
    /\ \A i \in 1..Len(cls.body) :
          cls.body[i].name \in Synthetic =>
              /\ cls.body[i].name \in DOMAIN cls.names
              /\ cls.names[cls.body[i].name].node = cls.body[i]

C9_Witness ==
    /\ Processed
    /\ passes >= 2
    /\ PluginMade(cls, STRUCTURE_NAME)
    /\ PluginMade(cls, UNSTRUCTURE_NAME)
    /\ TRY_STRUCTURE_NAME \in DOMAIN cls.names
    /\ ~cls.names[TRY_STRUCTURE_NAME].plugin_generated

\* C10: a call of add_static_method with an argument that has no type
\* annotation ends in AssertionError and leaves the member table and the
\* body as they were; no stored signature has an argument without a type.
C10_AssertBeforeWrite ==
    /\ [][(passes' = passes + 1 /\ ~AllTyped(lastArgs')) => (raised' /\ cls' = cls)]_vars
    /\ [](\A n \in DOMAIN cls.names :
              \A i \in 1..Len(cls.names[n].node.type.arg_types) :
                  cls.names[n].node.type.arg_types[i] # NoAnnotation)

C10_Witness ==
    /\ raised
    /\ Len(lastArgs) = 2
    /\ lastArgs[1].type_annotation # NoAnnotation
    /\ lastArgs[2].type_annotation = NoAnnotation
    /\ "other" \in DOMAIN cls.names
    /\ STRUCTURE_NAME \notin DOMAIN cls.names

====
